---- MODULE Spec2Model ----
(***************************************************************************)
(* Model of shift_mtimes.py: a lazy pipeline that walks a directory tree,  *)
(* stats every regular file, keeps the files whose mtime is older than a   *)
(* cutoff and reports, for each, max(mtime, ctime) shifted forward by a    *)
(* number of calendar months and days.                                     *)
(*                                                                         *)
(* Times are whole seconds since the epoch; the local time zone is UTC.    *)
(* A datetime is a record [year, month, day, sec] (sec = second of day).   *)
(* A path is the sequence of directory-entry ids from the input directory. *)
(***************************************************************************)
EXTENDS Integers, Sequences, FiniteSets

\* ------------------------------------------------------------------ bounds
NumNodes == 3
MaxMonths == 13
MaxDays == 20

\* ------------------------------------------------------- calendar (datetime)
SecondsPerDay == 86400
EpochOrdinal == 719163
DI400Y == 146097
DI100Y == 36524
DI4Y == 1461

Max(a, b) == IF a >= b THEN a ELSE b
Min(a, b) == IF a <= b THEN a ELSE b

is_leap(y) == (y % 4 = 0) /\ ((y % 100 # 0) \/ (y % 400 = 0))

DAYS_IN_MONTH == <<31, 28, 31, 30, 31, 30, 31, 31, 30, 31, 30, 31>>
DAYS_BEFORE_MONTH == <<0, 31, 59, 90, 120, 151, 181, 212, 243, 273, 304, 334>>

\* calendar.monthrange(year, month)[1]
monthrange(y, m) == IF m = 2 /\ is_leap(y) THEN 29 ELSE DAYS_IN_MONTH[m]

days_before_year(y) == (y - 1) * 365 + (y - 1) \div 4 - (y - 1) \div 100 + (y - 1) \div 400

days_before_month(y, m) == DAYS_BEFORE_MONTH[m] + (IF m > 2 /\ is_leap(y) THEN 1 ELSE 0)

\* date.toordinal(): 0001-01-01 is day 1
ymd2ord(y, m, d) == days_before_year(y) + days_before_month(y, m) + d

\* date.fromordinal(), by 400/100/4/1-year cycles
ord2ymd(ordinal) ==
    LET n0 == ordinal - 1
        n400 == n0 \div DI400Y
        r400 == n0 % DI400Y
        n100 == r400 \div DI100Y
        r100 == r400 % DI100Y
        n4 == r100 \div DI4Y
        r4 == r100 % DI4Y
        n1 == r4 \div 365
        n == r4 % 365
        year == n400 * 400 + 1 + n100 * 100 + n4 * 4 + n1
        leapyear == (n1 = 3) /\ ((n4 # 24) \/ (n100 = 3))
        m0 == (n + 50) \div 32
        p0 == DAYS_BEFORE_MONTH[m0] + (IF m0 > 2 /\ leapyear THEN 1 ELSE 0)
        month == IF p0 > n THEN m0 - 1 ELSE m0
        preceding == IF p0 > n
                     THEN p0 - (DAYS_IN_MONTH[month] + (IF month = 2 /\ leapyear THEN 1 ELSE 0))
                     ELSE p0
    IN  IF n1 = 4 \/ n100 = 4
        THEN [year |-> year - 1, month |-> 12, day |-> 31]
        ELSE [year |-> year, month |-> month, day |-> n - preceding + 1]

\* datetime.datetime.fromtimestamp(epochtime_)
epochs_to_datetime(e) ==
    LET ymd == ord2ymd(e \div SecondsPerDay + EpochOrdinal)
    IN  [year |-> ymd.year, month |-> ymd.month, day |-> ymd.day, sec |-> e % SecondsPerDay]

\* datetime_.timestamp()
datetime_to_epochs(dt) ==
    (ymd2ord(dt.year, dt.month, dt.day) - EpochOrdinal) * SecondsPerDay + dt.sec

\* strptime(date_str_, '%Y-%m-%d'): a date string is <<year, month, day>>
datetime_str_to_datetime(s) == [year |-> s[1], month |-> s[2], day |-> s[3], sec |-> 0]

datetime_str_to_epochs(s) == datetime_to_epochs(datetime_str_to_datetime(s))

\* strftime('%Y-%m-%d'): the time of day is dropped
datetime_to_datetime_str(dt) == <<dt.year, dt.month, dt.day>>

epochs_to_datetime_str(e) == datetime_to_datetime_str(epochs_to_datetime(e))

\* relativedelta(months=, days=): the constructor folds months beyond 11 into years
relativedelta(n_months, n_days) ==
    [years |-> n_months \div 12, months |-> n_months % 12, days |-> n_days]

relativedelta_add_NoClamp(dt, rd) ==
    LET m0 == dt.month + rd.months
        year == dt.year + rd.years + (IF m0 > 12 THEN 1 ELSE 0)
        month == IF m0 > 12 THEN m0 - 12 ELSE m0
        ymd == ord2ymd(ymd2ord(year, month, dt.day) + rd.days)
    IN  [year |-> ymd.year, month |-> ymd.month, day |-> ymd.day, sec |-> dt.sec]

\* datetime + relativedelta: years and months first, the day clamped to the
\* length of the resulting month, then the days as a timedelta
relativedelta_add(dt, rd) ==
    LET m0 == dt.month + rd.months
        year == dt.year + rd.years + (IF m0 > 12 THEN 1 ELSE 0)
        month == IF m0 > 12 THEN m0 - 12 ELSE m0
        day == Min(monthrange(year, month), dt.day)
        ymd == ord2ymd(ymd2ord(year, month, day) + rd.days)
    IN  [year |-> ymd.year, month |-> ymd.month, day |-> ymd.day, sec |-> dt.sec]

add_months_days_to_datetime(dt, n_months, n_days) ==
    relativedelta_add(dt, relativedelta(n_months, n_days))

\* ------------------------------------------------------------- inputs
Root == 0
Nodes == 1..NumNodes
Kinds == {"file", "dir", "link"}

\* the cutoff argument, '%Y-%m-%d'
Cutoffs == {<<2021, 1, 1>>}
CutoffSec == datetime_str_to_epochs(<<2021, 1, 1>>)

\* (st_mtime, st_ctime) of a file: old mtime with ctime before or after the cutoff,
\* mtime one second before the cutoff, mtime equal to the cutoff
Stamps ==
    { <<datetime_str_to_epochs(<<2020, 1, 1>>), datetime_str_to_epochs(<<2020, 6, 1>>)>>,
      <<datetime_str_to_epochs(<<2020, 1, 1>>), datetime_str_to_epochs(<<2021, 6, 1>>)>>,
      <<CutoffSec - 1, datetime_str_to_epochs(<<2020, 6, 1>>)>>,
      <<CutoffSec, datetime_str_to_epochs(<<2021, 6, 1>>)>> }

\* the shift_add_months and shift_add_days arguments
Offsets == {<<3, 10>>}

NoStamp == [mtime |-> 0, ctime |-> 0, atime |-> 0]

\* A directory tree, built one entry at a time.  Entry n lies in the input
\* directory or in the entry created just before it, which is then a real
\* directory; a symbolic link points at the input directory or at a file or
\* directory created before it.
EntryChoices(t, n) ==
    {c \in [kind : Kinds, parent : {Root, n - 1}, target : 0..n] :
        /\ c.parent # Root => t.kind[c.parent] = "dir"
        /\ IF c.kind = "link"
           THEN c.target < n /\ (c.target # Root => t.kind[c.target] # "link")
           ELSE c.target = n}

Blank ==
    [kind |-> [n \in Nodes |-> "file"], parent |-> [n \in Nodes |-> Root],
     target |-> [n \in Nodes |-> n]]

Extensions(t, n) ==
    {[kind |-> [t.kind EXCEPT ![n] = c.kind],
      parent |-> [t.parent EXCEPT ![n] = c.parent],
      target |-> [t.target EXCEPT ![n] = c.target]] : c \in EntryChoices(t, n)}

RECURSIVE TreesUpTo(_)
TreesUpTo(k) ==
    IF k = 0 THEN {Blank} ELSE UNION {Extensions(t, k) : t \in TreesUpTo(k - 1)}

Trees == TreesUpTo(NumNodes)

FilesOf(t) == {n \in Nodes : t.kind[n] = "file"}
DirsOf(t) == {n \in Nodes : t.kind[n] = "dir"}

VARIABLES tree, unreadable, unsearchable, fs, removed, cutoff, months, days,
          pc, stack, item, live, line, out, trace, exc, nsteps, sIn, sOut

vars == <<tree, unreadable, unsearchable, fs, removed, cutoff, months, days,
          pc, stack, item, live, line, out, trace, exc, nsteps, sIn, sOut>>

params == <<tree, unreadable, unsearchable, cutoff, months, days>>

NoShift == [year |-> 0, month |-> 0, day |-> 0, sec |-> 0]

\* ------------------------------------------------------------- filesystem
\* the entry a path names; os.stat and is_file/is_dir follow symbolic links
Resolve(n) == IF n # Root /\ tree.kind[n] = "link" THEN tree.target[n] ELSE n
PathEntry(p) == IF p = <<>> THEN Root ELSE p[Len(p)]
PathNode(p) == Resolve(PathEntry(p))

exists(p) == PathNode(p) \notin removed /\ PathEntry(p) \notin removed

\* the directories above entry n, the input directory included
RECURSIVE Above(_)
Above(n) == IF n = Root THEN {} ELSE {tree.parent[n]} \cup Above(tree.parent[n])

\* the directories a lookup of path p searches to reach the entry p names
\* (os.lstat), and to reach what that entry resolves to (os.stat): each of them
\* needs search permission, or the lookup fails with EACCES
SearchedTo(p) ==
    IF p = <<>> THEN {}
    ELSE {Root} \cup UNION {{Resolve(p[i])} \cup Above(Resolve(p[i])) : i \in 1..(Len(p) - 1)}
SearchedThrough(p) == SearchedTo(p) \cup Above(PathNode(p))

lstat_denied(p) == SearchedTo(p) \cap unsearchable # {}
stat_denied(p) == SearchedThrough(p) \cap unsearchable # {}

\* Path.is_symlink, Path.is_file, Path.is_dir: "True" or "False"; a missing entry
\* is "False" (ENOENT is swallowed), a lookup without permission raises, which the
\* value "PermissionError" stands for
is_symlink_Followed(p) == "False"

is_symlink(p) ==
    IF lstat_denied(p) THEN "PermissionError"
    ELSE IF /\ PathEntry(p) # Root /\ PathEntry(p) \notin removed
            /\ tree.kind[PathEntry(p)] = "link"
         THEN "True" ELSE "False"

is_file(p) ==
    IF stat_denied(p) THEN "PermissionError"
    ELSE IF exists(p) /\ PathNode(p) # Root /\ tree.kind[PathNode(p)] = "file"
         THEN "True" ELSE "False"

is_dir(p) ==
    IF stat_denied(p) THEN "PermissionError"
    ELSE IF exists(p) /\ (PathNode(p) = Root \/ tree.kind[PathNode(p)] = "dir")
         THEN "True" ELSE "False"

\* 'a and not b' of the two filter lambdas: b is evaluated only when a is true,
\* and an exception of either leaves the expression
and_not(a, b) ==
    IF a # "True" THEN a
    ELSE IF b = "True" THEN "False"
    ELSE IF b = "False" THEN "True"
    ELSE b

\* lambda v: v.is_file() and not v.is_symlink()
files_filter(v) == and_not(is_file(v), is_symlink(v))

\* lambda v: v.is_dir() and not v.is_symlink()
directories_filter(v) == and_not(is_dir(v), is_symlink(v))

\* Path(dir_).iterdir(): the entries of the directory as listed now, in listing order
iterdir(p) ==
    LET here == SelectSeq([i \in 1..NumNodes |-> i],
                          LAMBDA c : tree.parent[c] = PathNode(p) /\ c \notin removed)
    IN  [i \in 1..Len(here) |-> Append(p, here[i])]

\* listing needs read permission on the directory and search permission on the
\* directories that lead to it
CanList(p) == PathNode(p) \notin unreadable /\ ~stat_denied(p)

\* ------------------------------------------------------------- records
file_to_dict_MtimeOnly(file_) ==
    LET st == fs[PathNode(file_)]
        max_ == st.mtime
    IN  [mtime_epoch |-> st.mtime, ctime_epoch |-> st.ctime, max_mt_ct_epoch |-> max_,
         max_mt_ct_dt |-> epochs_to_datetime(max_),
         mtime_str |-> epochs_to_datetime_str(st.mtime),
         ctime_str |-> epochs_to_datetime_str(st.ctime),
         max_mt_ct_str |-> epochs_to_datetime_str(max_),
         file |-> file_]

file_to_dict(file_) ==
    LET st == fs[PathNode(file_)]
        max_ == Max(st.mtime, st.ctime)
    IN  [mtime_epoch |-> st.mtime, ctime_epoch |-> st.ctime, max_mt_ct_epoch |-> max_,
         max_mt_ct_dt |-> epochs_to_datetime(max_),
         mtime_str |-> epochs_to_datetime_str(st.mtime),
         ctime_str |-> epochs_to_datetime_str(st.ctime),
         max_mt_ct_str |-> epochs_to_datetime_str(max_),
         file |-> file_]

\* os.utime(file_, (epochs, epochs)) at clock time now: atime and mtime are set in
\* one call and the filesystem stamps the change into ctime; a file that cannot be
\* looked up raises PermissionError, one that is gone FileNotFoundError, and
\* nothing is written.  Returns None.
set_mtime_ctime_to_datetime(f, file_, datetime_, now) ==
    LET epochs == datetime_to_epochs(datetime_)
    IN  IF stat_denied(file_)
        THEN [exc |-> "PermissionError", fs |-> f]
        ELSE IF exists(file_)
        THEN [exc |-> "none",
              fs |-> [f EXCEPT ![PathNode(file_)] =
                          [atime |-> epochs, mtime |-> epochs, ctime |-> now]]]
        ELSE [exc |-> "FileNotFoundError", fs |-> f]

\* the files as shift_mtime leaves them: the call of set_mtime_ctime_to_datetime
\* is commented out, so nothing is written
shift_mtime_fs(f, file_, new_mtime) == f

\* the action record 'file:<path>,new_mtime:<date>'
shift_mtime(file_, datetime_to_shift, shift_add_months_, shift_add_days_) ==
    LET new_mtime == add_months_days_to_datetime(datetime_to_shift, shift_add_months_,
                                                 shift_add_days_)
    IN  [kind |-> "file", file |-> file_, new_mtime |-> datetime_to_datetime_str(new_mtime)]

cutoff_filter_OnMax(v) == v.max_mt_ct_epoch < datetime_str_to_epochs(cutoff)

\* lambda v: v['mtime_epoch'] < datetime_to_epochs(shift_older_than_cutoff)
cutoff_filter(v) == v.mtime_epoch < datetime_str_to_epochs(cutoff)

\* ------------------------------------------------------------- output
Marker(k) == [kind |-> k, file |-> <<>>, new_mtime |-> <<>>]
NoLine == Marker("none")
Echo == <<Marker("echo"), Marker("echo"), Marker("echo"), Marker("echo")>>

\* side_effect hooks: before, the per-item function, after
before(o) == Append(o, Marker("start"))
log_item(o, string_to_log_) == Append(o, string_to_log_)
after_Skipped(o) == o
after(o) == Append(o, Marker("done"))

\* consume: the item is pulled and dropped
consume_Kept(l) == l
consume(l) == SubSeq(l, 1, Len(l) - 1)

Event(e, p) == [ev |-> e, file |-> p]
Frame(p, ph, es) == [dir |-> p, phase |-> ph, entries |-> es]
Top == stack[Len(stack)]
SetTop(fr) == [stack EXCEPT ![Len(stack)] = fr]
Pop == SubSeq(stack, 1, Len(stack) - 1)
MaxDepth == NumNodes + 2

\* ------------------------------------------------------------- initial states
\* main(): the validated arguments and the tree as the run finds it.  The input
\* directory itself is readable (typer checks it) but may lack search permission;
\* at most one directory is restricted: no read permission, no search permission,
\* or neither
Init ==
    /\ tree \in Trees
    /\ \E u \in SUBSET DirsOf(tree), s \in SUBSET (DirsOf(tree) \cup {Root}) :
          /\ Cardinality(u \cup s) <= 1
          /\ unreadable = u
          /\ unsearchable = s
    /\ \E st \in [FilesOf(tree) -> Stamps] :
          fs = [n \in Nodes |-> IF n \in FilesOf(tree)
                                THEN [mtime |-> st[n][1], ctime |-> st[n][2], atime |-> st[n][1]]
                                ELSE NoStamp]
    /\ removed = {}
    /\ cutoff \in Cutoffs
    /\ \E o \in Offsets : months = o[1] /\ days = o[2]
    /\ pc = "ready"
    /\ stack = <<>>
    /\ item = <<>>
    /\ live = <<>>
    /\ line = NoLine
    /\ out = <<>>
    /\ trace = <<>>
    /\ exc = "none"
    /\ nsteps = 0
    /\ sIn = [dt |-> NoShift, months |-> 0, days |-> 0]
    /\ sOut = NoShift

\* ------------------------------------------------------------- actions
\* an exception leaves every generator of the pipe; side_effect's finally clause
\* still calls after(), and the exception leaves main
Raise(e) ==
    /\ exc' = e
    /\ out' = after(out)
    /\ pc' = "raised"

\* main up to the first pull of consume: the four echoes, then side_effect's before()
Main ==
    /\ pc = "ready"
    /\ out' = before(Echo)
    /\ stack' = <<Frame(<<>>, "list_files", <<>>)>>
    /\ pc' = "walk"
    /\ UNCHANGED <<params, fs, removed, item, live, line, trace, exc, sIn, sOut>>
    /\ nsteps' = nsteps + 1

\* yield_files(dir_): the directory is listed when its first entry is asked for
ListFiles ==
    /\ pc = "walk" /\ stack # <<>> /\ Top.phase = "list_files"
    /\ IF CanList(Top.dir)
       THEN /\ stack' = SetTop(Frame(Top.dir, "files", iterdir(Top.dir)))
            /\ UNCHANGED <<pc, out, exc>>
       ELSE /\ Raise("PermissionError")
            /\ UNCHANGED stack
    /\ UNCHANGED <<params, fs, removed, item, live, line, trace, sIn, sOut>>
    /\ nsteps' = nsteps + 1

\* the filter of yield_files on the next listed entry
TestFile ==
    /\ pc = "walk" /\ stack # <<>> /\ Top.phase = "files" /\ Top.entries # <<>>
    /\ LET e == Head(Top.entries)
           keep == files_filter(e)
       IN  IF keep = "PermissionError"
           THEN /\ Raise("PermissionError")
                /\ UNCHANGED <<stack, item, trace>>
           ELSE /\ stack' = SetTop(Frame(Top.dir, "files", Tail(Top.entries)))
                /\ UNCHANGED <<out, exc>>
                /\ IF keep = "True"
                   THEN /\ item' = e
                        /\ pc' = "stat"
                        /\ trace' = Append(trace, Event("yield", e))
                   ELSE UNCHANGED <<item, pc, trace>>
    /\ UNCHANGED <<params, fs, removed, live, line, sIn, sOut>>
    /\ nsteps' = nsteps + 1

\* yield_directories(dir_): the directory is listed again once its files are done
ListDirs ==
    /\ pc = "walk" /\ stack # <<>> /\ Top.phase = "files" /\ Top.entries = <<>>
    /\ IF CanList(Top.dir)
       THEN /\ stack' = SetTop(Frame(Top.dir, "dirs", iterdir(Top.dir)))
            /\ UNCHANGED <<pc, out, exc>>
       ELSE /\ Raise("PermissionError")
            /\ UNCHANGED stack
    /\ UNCHANGED <<params, fs, removed, item, live, line, trace, sIn, sOut>>
    /\ nsteps' = nsteps + 1

\* the filter of yield_directories on the next listed entry, and the recursive call
TestDir ==
    /\ pc = "walk" /\ stack # <<>> /\ Top.phase = "dirs" /\ Top.entries # <<>>
    /\ Len(stack) < MaxDepth
    /\ LET e == Head(Top.entries)
           rest == SetTop(Frame(Top.dir, "dirs", Tail(Top.entries)))
           keep == directories_filter(e)
       IN  IF keep = "PermissionError"
           THEN /\ Raise("PermissionError")
                /\ UNCHANGED <<stack, trace>>
           ELSE /\ UNCHANGED <<pc, out, exc>>
                /\ IF keep = "True"
                   THEN /\ stack' = Append(rest, Frame(e, "list_files", <<>>))
                        /\ trace' = Append(trace, Event("enter", e))
                   ELSE /\ stack' = rest
                        /\ UNCHANGED trace
    /\ UNCHANGED <<params, fs, removed, item, live, line, sIn, sOut>>
    /\ nsteps' = nsteps + 1

\* yield_files_recursive(dir_) returns to its caller
Return ==
    /\ pc = "walk" /\ stack # <<>> /\ Top.phase = "dirs" /\ Top.entries = <<>>
    /\ stack' = Pop
    /\ UNCHANGED <<params, fs, removed, pc, item, live, line, out, trace, exc, sIn, sOut>>
    /\ nsteps' = nsteps + 1

\* the walk is exhausted: side_effect calls after() and consume returns
Exhausted ==
    /\ pc = "walk" /\ stack = <<>>
    /\ out' = after(out)
    /\ pc' = "done"
    /\ UNCHANGED <<params, fs, removed, stack, item, live, line, trace, exc, sIn, sOut>>
    /\ nsteps' = nsteps + 1

\* map(file_to_dict) on the path just yielded
Stat ==
    /\ pc = "stat"
    /\ IF stat_denied(item)
       THEN /\ Raise("PermissionError")
            /\ UNCHANGED <<live, trace>>
       ELSE IF exists(item)
       THEN /\ live' = Append(live, file_to_dict(item))
            /\ trace' = Append(trace, Event("stat", item))
            /\ pc' = "filter"
            /\ UNCHANGED <<out, exc>>
       ELSE /\ Raise("FileNotFoundError")
            /\ UNCHANGED <<live, trace>>
    /\ item' = <<>>
    /\ UNCHANGED <<params, fs, removed, stack, line, sIn, sOut>>
    /\ nsteps' = nsteps + 1

\* filter(mtime older than the cutoff) on the record just built
Filter ==
    /\ pc = "filter"
    /\ LET v == live[Len(live)]
       IN  IF cutoff_filter(v)
           THEN /\ pc' = "shift"
                /\ trace' = Append(trace, Event("select", v.file))
                /\ UNCHANGED live
           ELSE /\ pc' = "walk"
                /\ trace' = Append(trace, Event("reject", v.file))
                /\ live' = SubSeq(live, 1, Len(live) - 1)
    /\ UNCHANGED <<params, fs, removed, stack, item, line, out, exc, sIn, sOut>>
    /\ nsteps' = nsteps + 1

\* map(shift_mtime) on the selected record
Shift ==
    /\ pc = "shift"
    /\ LET v == live[Len(live)]
       IN  /\ line' = shift_mtime(v.file, v.max_mt_ct_dt, months, days)
           /\ fs' = shift_mtime_fs(fs, v.file,
                        add_months_days_to_datetime(v.max_mt_ct_dt, months, days))
           /\ trace' = Append(trace, Event("record", v.file))
    /\ pc' = "print"
    /\ UNCHANGED <<params, removed, stack, item, live, out, exc, sIn, sOut>>
    /\ nsteps' = nsteps + 1

\* side_effect prints the action record and yields it to consume, which drops it
Emit ==
    /\ pc = "print"
    /\ out' = log_item(out, line)
    /\ trace' = Append(trace, Event("emit", line.file))
    /\ live' = consume(live)
    /\ line' = NoLine
    /\ pc' = "walk"
    /\ UNCHANGED <<params, fs, removed, stack, item, exc, sIn, sOut>>
    /\ nsteps' = nsteps + 1

\* Another process removes a file between its listing and the walk's next look
\* at it (the is_file test or the stat).  A removal at any other time is seen by
\* the run exactly as one of these, or not at all.
RemoveFile ==
    /\ \E n \in FilesOf(tree) \ removed :
          /\ \/ /\ pc = "walk" /\ stack # <<>> /\ Top.phase = "files"
                /\ Top.entries # <<>> /\ PathEntry(Head(Top.entries)) = n
             \/ pc = "stat" /\ PathEntry(item) = n
          /\ removed' = removed \cup {n}
    /\ UNCHANGED <<params, fs, pc, stack, item, live, line, out, trace, exc, nsteps, sIn, sOut>>

Step ==
    \/ Main
    \/ ListFiles
    \/ TestFile
    \/ ListDirs
    \/ TestDir
    \/ Return
    \/ Exhausted
    \/ Stat
    \/ Filter
    \/ Shift
    \/ Emit

Next ==
    \/ Step
    \/ RemoveFile

Spec == Init /\ [][Next]_vars

\* ------------------------------------------------- the shift calculator alone
ShiftYears == {2019, 2020, 2023, 2099}
ShiftDaysOfMonth == {1, 15, 28, 29, 30, 31}
ShiftDates ==
    {d \in [year : ShiftYears, month : 1..12, day : ShiftDaysOfMonth, sec : {0}] :
        d.day <= monthrange(d.year, d.month)}

ShiftInit ==
    /\ tree = [kind |-> [n \in Nodes |-> "file"], parent |-> [n \in Nodes |-> Root],
               target |-> [n \in Nodes |-> n]]
    /\ unreadable = {}
    /\ unsearchable = {}
    /\ fs = [n \in Nodes |-> NoStamp]
    /\ removed = {}
    /\ cutoff = <<2021, 1, 1>>
    /\ months = 0
    /\ days = 0
    /\ pc = "calc"
    /\ stack = <<>>
    /\ item = <<>>
    /\ live = <<>>
    /\ line = NoLine
    /\ out = <<>>
    /\ trace = <<>>
    /\ exc = "none"
    /\ nsteps = 0
    /\ sIn \in [dt : ShiftDates, months : 0..MaxMonths, days : 0..MaxDays]
    /\ sOut = NoShift

ApplyShift ==
    /\ pc = "calc"
    /\ sOut' = add_months_days_to_datetime(sIn.dt, sIn.months, sIn.days)
    /\ pc' = "calculated"
    /\ UNCHANGED <<params, fs, removed, stack, item, live, line, out, trace, exc, nsteps, sIn>>

ShiftNext == ApplyShift

ShiftSpec == ShiftInit /\ [][ShiftNext]_vars

\* ------------------------------------------------- the timestamp writer alone
\* no run of main reaches set_mtime_ctime_to_datetime; here it is applied to one
\* file of the input directory, present or already removed, the input directory
\* with or without search permission
WriteClock == {datetime_str_to_epochs(<<2026, 10, 30>>),
               datetime_str_to_epochs(<<2026, 10, 30>>) + 1}
WriteTargets ==
    {[year |-> 2020, month |-> 9, day |-> 11, sec |-> 0],
     [year |-> 2021, month |-> 4, day |-> 10, sec |-> SecondsPerDay - 1]}

WriteInit ==
    /\ tree = Blank
    /\ unreadable = {}
    /\ unsearchable \in SUBSET {Root}
    /\ \E st \in [Nodes -> Stamps] :
          fs = [n \in Nodes |-> [mtime |-> st[n][1], ctime |-> st[n][2], atime |-> st[n][1]]]
    /\ removed \in SUBSET {1}
    /\ cutoff = <<2021, 1, 1>>
    /\ months = 0
    /\ days = 0
    /\ pc = "write"
    /\ stack = <<>>
    /\ item = <<1>>
    /\ live = <<>>
    /\ line = NoLine
    /\ out = <<>>
    /\ trace = <<>>
    /\ exc = "none"
    /\ nsteps = 0
    /\ sIn \in [dt : WriteTargets, months : {0}, days : {0}]
    /\ sOut = NoShift

ApplyWrite ==
    /\ pc = "write"
    /\ \E now \in WriteClock :
          LET r == set_mtime_ctime_to_datetime(fs, item, sIn.dt, now)
          IN  fs' = r.fs /\ exc' = r.exc
    /\ pc' = "written"
    /\ UNCHANGED <<params, removed, stack, item, live, line, out, trace, nsteps, sIn, sOut>>

WriteNext == ApplyWrite

WriteSpec == WriteInit /\ [][WriteNext]_vars

\* ------------------------------------------------- reference calendar
\* the Gregorian calendar stated directly: month lengths, the day after a day,
\* k days later by stepping, k months later by counting months
RefDaysIn(y, m) ==
    IF m \in {4, 6, 9, 11} THEN 30
    ELSE IF m # 2 THEN 31
    ELSE IF (y % 4 = 0 /\ y % 100 # 0) \/ y % 400 = 0 THEN 29 ELSE 28

RefValid(d) == d.month \in 1..12 /\ d.day \in 1..RefDaysIn(d.year, d.month)

RefNextDay(d) ==
    IF d.day < RefDaysIn(d.year, d.month) THEN [d EXCEPT !.day = d.day + 1]
    ELSE IF d.month < 12 THEN [d EXCEPT !.month = d.month + 1, !.day = 1]
    ELSE [d EXCEPT !.year = d.year + 1, !.month = 1, !.day = 1]

RECURSIVE RefAddDays(_, _)
RefAddDays(d, k) == IF k = 0 THEN d ELSE RefAddDays(RefNextDay(d), k - 1)

RefAddMonths(d, k) ==
    LET idx == d.year * 12 + (d.month - 1) + k
        y == idx \div 12
        m == (idx % 12) + 1
    IN  [d EXCEPT !.year = y, !.month = m,
                  !.day = IF d.day <= RefDaysIn(y, m) THEN d.day ELSE RefDaysIn(y, m)]

RefShift(d, n_months, n_days) == RefAddDays(RefAddMonths(d, n_months), n_days)

Date(y, m, d) == [year |-> y, month |-> m, day |-> d, sec |-> 0]

\* ------------------------------------------------- what the run has done
Ended == {"done", "raised"}
Events(e) == {i \in 1..Len(trace) : trace[i].ev = e}
Did(e, p) == \E i \in Events(e) : trace[i].file = p
Lines == {i \in 1..Len(out) : out[i].kind = "file"}
LinesOf(p) == {i \in Lines : out[i].file = p}
Marks(k) == {i \in 1..Len(out) : out[i].kind = k}

RECURSIVE PathTo(_)
PathTo(n) == IF tree.parent[n] = Root THEN <<n>> ELSE Append(PathTo(tree.parent[n]), n)

RegularFiles == FilesOf(tree)
MtimeOf(p) == fs[p[Len(p)]].mtime
CtimeOf(p) == fs[p[Len(p)]].ctime
NoLinkOn(p) == \A i \in 1..Len(p) : tree.kind[p[i]] # "link"

\* ------------------------------------------------------------- claims

\* C1: a walked file gets an action record iff its mtime is strictly older than
\* the cutoff (2021-01-01 00:00:00 = 1609459200): equal to the cutoff is rejected,
\* one second earlier is selected, whatever the ctime.
C1_SelectedIffMtimeOlder ==
    \A i \in 1..Len(trace) :
        LET e == trace[i]
        IN  /\ e.ev = "select" => MtimeOf(e.file) < 1609459200
            /\ e.ev = "reject" => MtimeOf(e.file) >= 1609459200
            /\ e.ev = "stat" /\ i < Len(trace) =>
                   /\ trace[i + 1].file = e.file
                   /\ trace[i + 1].ev = (IF MtimeOf(e.file) <= 1609459199
                                         THEN "select" ELSE "reject")
            /\ e.ev = "select" /\ i < Len(trace) =>
                   trace[i + 1] = Event("record", e.file)
            /\ e.ev = "record" => i > 1 /\ trace[i - 1] = Event("select", e.file)

C1_Witness ==
    /\ pc = "done"
    /\ \E p \in {trace[i].file : i \in Events("record")} :
          MtimeOf(p) = 1609459199
    /\ \E p \in {trace[i].file : i \in Events("record")} :
          CtimeOf(p) > 1609459200
    /\ \E p \in {trace[i].file : i \in Events("reject")} :
          MtimeOf(p) = 1609459200

\* C2: every record carries max(mtime, ctime), and every reported new timestamp
\* is that maximum shifted by the offset: the ctime when it is the later one.
\* mtime 2020-01-01, ctime 2020-06-01, offset (3, 10) gives 2020-09-11.
C2_ShiftAnchoredToMax ==
    /\ \A k \in 1..Len(live) :
          LET v == live[k]
              m == MtimeOf(v.file)
              c == CtimeOf(v.file)
          IN  /\ v.mtime_epoch = m /\ v.ctime_epoch = c
              /\ v.max_mt_ct_epoch >= m /\ v.max_mt_ct_epoch >= c
              /\ v.max_mt_ct_epoch \in {m, c}
    /\ \A l \in {out[i] : i \in Lines} \cup (IF line = NoLine THEN {} ELSE {line}) :
          LET m == MtimeOf(l.file)
              c == CtimeOf(l.file)
              anchor == epochs_to_datetime(IF c > m THEN c ELSE m)
              new == RefShift(anchor, months, days)
          IN  /\ l.new_mtime = <<new.year, new.month, new.day>>
              /\ (m = 1577836800 /\ c = 1590969600 /\ months = 3 /\ days = 10)
                    => l.new_mtime = <<2020, 9, 11>>

C2_Witness ==
    /\ pc = "done" /\ months = 3 /\ days = 10
    /\ \E i \in Lines :
          /\ MtimeOf(out[i].file) = 1577836800
          /\ CtimeOf(out[i].file) = 1590969600
          /\ out[i].new_mtime = <<2020, 9, 11>>

\* C3: the walker never yields a symbolic link, never enters a directory through
\* one, and so never yields a path that passes through one.
C3_NoSymlinkYielded ==
    /\ \A i \in Events("yield") \cup Events("enter") : NoLinkOn(trace[i].file)
    /\ \A k \in 1..Len(stack) : NoLinkOn(stack[k].dir)
    /\ NoLinkOn(item)

C3_Witness ==
    /\ pc = "done" /\ exc = "none"
    /\ \E l \in Nodes, f \in Nodes :
          /\ tree.kind[l] = "link" /\ tree.target[l] # Root
          /\ tree.kind[tree.target[l]] = "dir"
          /\ tree.kind[f] = "file" /\ tree.parent[f] = tree.target[l]
          /\ Did("yield", PathTo(f))

\* C4: when the action record of a selected file is about to be emitted, the
\* file's atime and mtime are the shifted timestamp.
C4_TimesWritten ==
    pc = "print" =>
        LET v == live[Len(live)]
            epochs == datetime_to_epochs(
                          add_months_days_to_datetime(v.max_mt_ct_dt, months, days))
        IN  /\ fs[PathNode(v.file)].mtime = epochs
            /\ fs[PathNode(v.file)].atime = epochs

\* C5: a file that vanished between its listing and its stat is skipped and the
\* run goes on: with every directory readable and searchable, a run that has ended
\* has stat'ed every file that is still there, and the completion marker is its
\* last output.
C5_VanishedFileSkipped ==
    (pc \in Ended /\ unreadable = {} /\ unsearchable = {}) =>
        /\ \A n \in RegularFiles \ removed : Did("stat", PathTo(n))
        /\ out[Len(out)] = Marker("done")

\* C6: a subdirectory that cannot be listed is skipped and the walk goes on: with
\* no file removed and every directory searchable, a run that has ended has
\* yielded and stat'ed every file that lies outside the unreadable directories.
C6_UnreadableSubtreeSkipped ==
    (pc \in Ended /\ removed = {} /\ unsearchable \subseteq unreadable) =>
        \A n \in RegularFiles :
            (\A i \in 1..Len(PathTo(n)) : PathTo(n)[i] \notin unreadable)
                => Did("yield", PathTo(n)) /\ Did("stat", PathTo(n))

\* C7: the shift adds the months first, clamping the day to the length of the
\* target month, then the days; it agrees with the reference calendar and always
\* gives a date that exists.
C7_ShiftMatchesCalendar ==
    pc = "calculated" =>
        /\ sOut = RefShift(sIn.dt, sIn.months, sIn.days)
        /\ RefValid(sOut)
        /\ (sIn = [dt |-> Date(2023, 1, 31), months |-> 1, days |-> 0])
              => sOut = Date(2023, 2, 28)
        /\ (sIn = [dt |-> Date(2020, 1, 31), months |-> 1, days |-> 0])
              => sOut = Date(2020, 2, 29)
        /\ (sIn = [dt |-> Date(2023, 3, 15), months |-> 0, days |-> 20])
              => sOut = Date(2023, 4, 4)

C7_Witness ==
    /\ pc = "calculated"
    /\ sIn = [dt |-> Date(2020, 1, 31), months |-> 1, days |-> 0]
    /\ sOut = Date(2020, 2, 29)

\* C8: the output is the start marker once, before every file line; one file
\* line for each file the filter selected and none for any other; the completion
\* marker once, after the last file line, when the run has ended.
C8_OutputOrder ==
    /\ pc = "ready" => out = <<>>
    /\ pc # "ready" =>
          /\ Marks("start") = {5}
          /\ \A i \in 1..4 : out[i].kind = "echo"
          /\ \A i \in Lines : i > 5
    /\ Marks("done") = (IF pc \in Ended THEN {Len(out)} ELSE {})
    /\ \A i \in Lines :
          /\ Did("select", out[i].file)
          /\ MtimeOf(out[i].file) < 1609459200
          /\ Cardinality(LinesOf(out[i].file)) = 1
    /\ pc \in Ended \cup {"walk", "stat"} =>
          \A i \in Events("select") : Cardinality(LinesOf(trace[i].file)) = 1
    /\ (pc = "done" /\ removed = {}) =>
          \A n \in RegularFiles :
              Cardinality(LinesOf(PathTo(n))) = (IF fs[n].mtime < 1609459200 THEN 1 ELSE 0)

C8_Witness ==
    /\ pc = "done"
    /\ Cardinality(Lines) = 2
    /\ Events("reject") # {}

\* C9: for any tree, the walker yields each regular file of the tree exactly
\* once and nothing else, and it stops, links back to an ancestor included: a
\* walk of a tree that no one changed, however the walk ended, has yielded every
\* regular file that lies under directories it may list and search; the recursion is never deeper than the real directories of the tree
\* (so the depth cap of TestDir never holds it back), and the number of steps of
\* a run is bounded by the size of the tree.
C9_EveryFileOnceAndStops ==
    /\ \A i \in Events("yield") :
          /\ \E n \in RegularFiles : trace[i].file = PathTo(n)
          /\ \A j \in Events("yield") : trace[j].file = trace[i].file => j = i
    /\ (pc \in Ended /\ removed = {}) =>
          \A n \in RegularFiles :
              Above(n) \cap (unreadable \cup unsearchable) = {} => Did("yield", PathTo(n))
    /\ Len(stack) <= Cardinality(DirsOf(tree)) + 1
    /\ nsteps <= 2 + 3 * (Cardinality(DirsOf(tree)) + 1) + 2 * NumNodes
                   + 4 * Cardinality(RegularFiles)

\* C10: one file at a time: when a file is stat'ed, every file yielded before it
\* has already been rejected or emitted, and at most one record is in flight.
C10_OneFileAtATime ==
    /\ Len(live) <= 1
    /\ live # <<>> => pc \in {"filter", "shift", "print"}
    /\ \A i \in Events("stat") :
          /\ i > 1 /\ trace[i - 1] = Event("yield", trace[i].file)
          /\ \A j \in Events("yield") :
                j < i - 1 =>
                    \E k \in Events("reject") \cup Events("emit") :
                        j < k /\ k < i /\ trace[k].file = trace[j].file
    /\ \A i \in Events("emit") :
          i > 3 /\ trace[i - 1] = Event("record", trace[i].file)
                /\ trace[i - 3] = Event("stat", trace[i].file)

C10_Witness ==
    /\ pc = "done"
    /\ Cardinality(Events("emit")) >= 2

====
